---- MODULE Spec2Model ----
(***************************************************************************)
(* Model of the parameter-sweep spectral analysis engine of the RQL logic  *)
(* gate simulator: src/src/simulator.py (diagonalize_hamiltonian,          *)
(* flux_sweep) driven by the circuits of src/src/circuit_builder.py.       *)
(*                                                                         *)
(* Real numbers are modelled exactly.  A flux value is a rational          *)
(* <<num, den>> in lowest terms (den > 0).  An energy slot of the sweep    *)
(* table is a record [nan, v]: either the not-a-number marker or an        *)
(* integer number of energy units.                                         *)
(***************************************************************************)
EXTENDS Integers, Sequences, FiniteSets, TLC

\* ---------------------------------------------------------------- bounds
\* largest n_points offered to flux_sweep
MaxPoints == 3
\* largest n_levels offered to flux_sweep / diagonalize_hamiltonian
MaxLevels == 2
\* largest number of eigenvalues the solver hands back
MaxRet == 2
\* flux inputs are the multiples of 1/FluxRes between -1/FluxRes and 1 + 1/FluxRes
FluxRes == 1
\* largest n_points offered in the grid specification
MaxGridPoints == 5
\* resolution of the flux inputs in the grid specification
GridFluxRes == 2
\* largest number of samples of a sweep run from the app
MaxAppPoints == 2
\* largest number of samples of an analysed sweep table
MaxTablePoints == 3
\* longest energy sequence handed to the metric functions
MaxEnergies == 4

\* ---------------------------------------------------------------- numbers
Abs(x) == IF x < 0 THEN -x ELSE x

Min(a, b) == IF a <= b THEN a ELSE b

RECURSIVE GCD(_, _)
GCD(a, b) == IF b = 0 THEN a ELSE GCD(b, a % b)

\* the rational n/d (d > 0) in lowest terms
Rat(n, d) == LET g == GCD(Abs(n), d) IN <<n \div g, d \div g>>

RatAdd(a, b) == Rat(a[1] * b[2] + b[1] * a[2], a[2] * b[2])

RatSub(a, b) == Rat(a[1] * b[2] - b[1] * a[2], a[2] * b[2])

RatMulInt(a, k) == Rat(a[1] * k, a[2])

RatDivInt(a, k) == Rat(a[1], a[2] * k)

RatLess(a, b) == a[1] * b[2] < b[1] * a[2]

RatLeq(a, b) == a[1] * b[2] <= b[1] * a[2]

\* an energy slot holding the number v
Num(v) == [nan |-> FALSE, v |-> v]

\* np.nan
NaN == [nan |-> TRUE, v |-> 0]

\* ---------------------------------------------------------------- circuits
\* element of a circuit: a Loop object itself, or a component carrying a
\* (possibly empty) list of the loops it belongs to
LoopElem(id) == [isLoop |-> TRUE, id |-> id, loops |-> <<>>]

Junction(loops) == [isLoop |-> FALSE, id |-> 0, loops |-> loops]

Capacitor == [isLoop |-> FALSE, id |-> 0, loops |-> <<>>]

Inductor(loops) == [isLoop |-> FALSE, id |-> 0, loops |-> loops]

LoopIds == 1..2

\* no loop resolved (Python None)
NoLoop == 0

\* the exception circuit.set_trunc_nums raises when it refuses the numbers given:
\* ValueError, or an exception of another type
ValueError == "ValueError"

OtherError == "TypeError"

\* circuit = None
NoneCircuit == [isNone |-> TRUE, elements |-> <<>>, modes |-> 0, truncError |-> ValueError]

\* build_rql_inverter: elements {(0,1): [JJ, C]}, one mode
InverterCircuit ==
  [isNone |-> FALSE, elements |-> << <<Junction(<<1>>), Capacitor>> >>, modes |-> 1,
   truncError |-> ValueError]

\* build_anb_gate: elements {(0,1): [JJ1, C1], (0,2): [JJ2, C2], (1,2): [JJ_coupling]}
AnbCircuit ==
  [isNone |-> FALSE,
   elements |-> << <<Junction(<<1>>), Capacitor>>,
                   <<Junction(<<2>>), Capacitor>>,
                   <<Junction(<<1, 2>>)>> >>,
   modes |-> 2, truncError |-> ValueError]

\* build_rql_loop: elements {(0,1): [JJ, C, L]}
RqlLoopCircuit ==
  [isNone |-> FALSE,
   elements |-> << <<Junction(<<1>>), Capacitor, Inductor(<<1>>)>> >>,
   modes |-> 1, truncError |-> ValueError]

\* a circuit without any flux loop (capacitors only)
NoLoopCircuit ==
  [isNone |-> FALSE, elements |-> << <<Capacitor>>, <<Capacitor>> >>, modes |-> 1,
   truncError |-> ValueError]

\* a circuit whose element lists hold a Loop object after a junction of another loop
DirectLoopCircuit ==
  [isNone |-> FALSE,
   elements |-> << <<Junction(<<1>>), Capacitor>>, <<LoopElem(2)>> >>,
   modes |-> 2, truncError |-> ValueError]

\* a loop-free circuit of three modes: neither [50] nor [50, 50] fits it
ThreeModeCircuit ==
  [isNone |-> FALSE, elements |-> << <<Capacitor>>, <<Capacitor>>, <<Capacitor>> >>,
   modes |-> 3, truncError |-> ValueError]

\* the same circuit in a library that refuses truncation numbers with an
\* exception that is no ValueError
RefusingOtherwise(c) == [c EXCEPT !.truncError = OtherError]

Circuits ==
  {NoneCircuit, InverterCircuit, AnbCircuit, RqlLoopCircuit, NoLoopCircuit, DirectLoopCircuit,
   ThreeModeCircuit, RefusingOtherwise(AnbCircuit), RefusingOtherwise(ThreeModeCircuit)}

\* concatenation of the element lists, in iteration order of circuit.elements.values()
RECURSIVE Flatten(_)
Flatten(lists) == IF lists = <<>> THEN <<>> ELSE Head(lists) \o Flatten(Tail(lists))

\* first pass of the loop search: the first element that is itself a Loop
FirstLoopObject(c) ==
  LET es == Flatten(c.elements)
      hits == {k \in 1..Len(es) : es[k].isLoop}
  IN IF hits = {} THEN NoLoop
     ELSE es[CHOOSE k \in hits : \A m \in hits : k <= m].id

\* second pass: loops[0] of the first element with a non-empty loops list
FirstElementLoop(c) ==
  LET es == Flatten(c.elements)
      hits == {k \in 1..Len(es) : es[k].loops # <<>>}
  IN IF hits = {} THEN NoLoop
     ELSE es[CHOOSE k \in hits : \A m \in hits : k <= m].loops[1]

\* variant: the loops lists of the elements are searched before the Loop objects
FindLoopElementsFirst(c) ==
  IF FirstElementLoop(c) # NoLoop THEN FirstElementLoop(c) ELSE FirstLoopObject(c)

\* the flux loop flux_sweep resolves on the circuit, NoLoop if none
FindLoop(c) ==
  IF FirstLoopObject(c) # NoLoop THEN FirstLoopObject(c) ELSE FirstElementLoop(c)

\* ---------------------------------------------------------------- flux_sweep helpers
\* flux_range = None
NoneRange == <<>>

\* flux_range defaulting
EffectiveRange(range) == IF range = NoneRange THEN <<Rat(0, 1), Rat(1, 1)>> ELSE range

\* variant: the range check written with <= throughout
ValidRangeNonStrict(lo, hi) ==
  RatLeq(Rat(0, 1), lo) /\ RatLeq(lo, hi) /\ RatLeq(hi, Rat(1, 1))

\* 0 <= flux_min < flux_max <= 1
ValidRange(lo, hi) ==
  RatLeq(Rat(0, 1), lo) /\ RatLess(lo, hi) /\ RatLeq(hi, Rat(1, 1))

\* variant: the samples are spaced as if the end point were excluded
linspaceNoEndpoint(start, stop, num) ==
  LET step == IF num > 0 THEN RatDivInt(RatSub(stop, start), num) ELSE RatSub(stop, start)
  IN [k \in 1..num |-> RatAdd(RatMulInt(step, k - 1), start)]

\* np.linspace(start, stop, num) for num >= 0
linspace(start, stop, num) ==
  LET div == num - 1
      step == IF div > 0 THEN RatDivInt(RatSub(stop, start), div) ELSE RatSub(stop, start)
  IN [k \in 1..num |->
        IF div > 0 /\ k = num THEN stop
        ELSE RatAdd(RatMulInt(step, k - 1), start)]

\* variant: the table allocated with its dimensions swapped
zerosSwapped(n, w) == [r \in 1..w |-> [j \in 1..n |-> Num(0)]]

\* np.zeros((n_points, n_levels)) for non-negative dimensions
zeros(n, w) == [r \in 1..n |-> [j \in 1..w |-> Num(0)]]

\* variant: the last n_store eigenvalues are stored instead of the first
StoreRowTail(table, i, w, energies) ==
  LET n_store == Min(w, Len(energies))
  IN [table EXCEPT ![i + 1] =
        [j \in 1..w |-> IF j <= n_store THEN Num(energies[Len(energies) - n_store + j])
                        ELSE table[i + 1][j]]]

\* energy_levels[i, :n_store] = energies[:n_store], n_store = min(n_levels, len(energies))
\* (i counts from 0 as in the source)
StoreRow(table, i, w, energies) ==
  LET n_store == Min(w, Len(energies))
  IN [table EXCEPT ![i + 1] =
        [j \in 1..w |-> IF j <= n_store THEN Num(energies[j]) ELSE table[i + 1][j]]]

\* variant: a failed sample is always marked not-a-number
RecoverRowAlwaysNaN(table, i, w) == [table EXCEPT ![i + 1] = [j \in 1..w |-> NaN]]

\* variant: a failed later sample takes the first row instead of the previous one
RecoverRowFirst(table, i, w) ==
  IF i > 0 THEN [table EXCEPT ![i + 1] = table[1]]
  ELSE [table EXCEPT ![i + 1] = [j \in 1..w |-> NaN]]

\* the except branch of the sweep loop: previous row, or NaN for the first sample
RecoverRow(table, i, w) ==
  IF i > 0 THEN [table EXCEPT ![i + 1] = table[i]]
  ELSE [table EXCEPT ![i + 1] = [j \in 1..w |-> NaN]]

\* ---------------------------------------------------------------- diagonalize_hamiltonian
\* trunc_nums not configured
NoTrunc == <<>>

\* default truncation per mode
DefaultTrunc == 50

\* circuit.set_trunc_nums(nums): accepted when one number per mode is given
TruncAccepted(c, nums) == Len(nums) = c.modes

\* the truncation configuration after the "set truncation if not already set"
\* block: the second attempt is made only when the first raised ValueError, and
\* whatever the second raises is passed over
TruncAfter(c, trunc) ==
  IF trunc # NoTrunc THEN trunc
  ELSE IF TruncAccepted(c, <<DefaultTrunc>>) THEN <<DefaultTrunc>>
  ELSE IF c.truncError # ValueError THEN trunc
  ELSE IF TruncAccepted(c, <<DefaultTrunc, DefaultTrunc>>) THEN <<DefaultTrunc, DefaultTrunc>>
  ELSE trunc

\* the block itself raises: set_trunc_nums([50]) is refused with an exception
\* that 'except ValueError' does not catch
TruncRaises(c, trunc) ==
  /\ trunc = NoTrunc
  /\ ~TruncAccepted(c, <<DefaultTrunc>>)
  /\ c.truncError # ValueError

\* outcome of circuit.diag(n_eig): the solver raises, or hands back eigenvalues
SolverRaises == [raised |-> TRUE, energies |-> <<>>]

SolverReturns(es) == [raised |-> FALSE, energies |-> es]

\* k eigenvalues in ascending order: 1, 2, ..., k
Ascending(k) == [j \in 1..k |-> j]

\* k eigenvalues in descending order: k, ..., 2, 1
Descending(k) == [j \in 1..k |-> k + 1 - j]

\* what the solver may do: raise, or hand back 0..MaxRet eigenvalues in either order
SolverOutcomes ==
  {SolverRaises}
    \cup {SolverReturns(Ascending(k)) : k \in 0..MaxRet}
    \cup {SolverReturns(Descending(k)) : k \in 2..MaxRet}

\* per requested level count: the solver does anything of SolverOutcomes
DiagAny == [w \in 1..MaxLevels |-> SolverOutcomes]

\* variant: a failure is logged and an empty result returned instead of raising
diagonalize_hamiltonian_swallows(c, trunc, out) ==
  IF c.isNone THEN [raised |-> TRUE, energies |-> <<>>, trunc |-> trunc, called |-> FALSE]
  ELSE IF TruncRaises(c, trunc)
  THEN [raised |-> FALSE, energies |-> <<>>, trunc |-> trunc, called |-> FALSE]
  ELSE [raised |-> FALSE,
        energies |-> IF out.raised THEN <<>> ELSE out.energies,
        trunc |-> TruncAfter(c, trunc), called |-> TRUE]

\* diagonalize_hamiltonian(circuit, n_levels) given what the solver does:
\* the result (raised / energies), the truncation configuration left behind and
\* whether circuit.diag was called
diagonalize_hamiltonian(c, trunc, out) ==
  IF c.isNone THEN [raised |-> TRUE, energies |-> <<>>, trunc |-> trunc, called |-> FALSE]
  ELSE IF TruncRaises(c, trunc)
       THEN [raised |-> TRUE, energies |-> <<>>, trunc |-> trunc, called |-> FALSE]
  ELSE IF out.raised
       THEN [raised |-> TRUE, energies |-> <<>>, trunc |-> TruncAfter(c, trunc),
             called |-> TRUE]
  ELSE IF Len(out.energies) = 0
       THEN [raised |-> TRUE, energies |-> <<>>, trunc |-> TruncAfter(c, trunc),
             called |-> TRUE]
  ELSE [raised |-> FALSE, energies |-> out.energies, trunc |-> TruncAfter(c, trunc),
        called |-> TRUE]

\* ---------------------------------------------------------------- flux_sweep entry
\* flux_sweep from its first line up to the loop search: the error raised
\* there (NoError if none) and the locals set up for the sweep loop
NoError == "none"

\* variant: the missing-loop check is left out
LoopMissingNever(l) == FALSE

\* if loop is None: raise
LoopMissing(l) == l = NoLoop

SweepEntry(c, range, n, w) ==
  LET r == EffectiveRange(range)
      none == [error |-> NoError, flux_values |-> <<>>, energy_levels |-> <<>>, loop |-> NoLoop]
  IN IF ~ValidRange(r[1], r[2])
       THEN [none EXCEPT !.error = "ValueError: Invalid flux range"]
     ELSE IF n < 0
       THEN [none EXCEPT !.error = "ValueError: Number of samples must be non-negative"]
     ELSE IF w < 0
       THEN [none EXCEPT !.error = "ValueError: negative dimensions are not allowed",
                         !.flux_values = linspace(r[1], r[2], n)]
     ELSE IF c.isNone
       THEN [none EXCEPT !.error = "AttributeError: elements",
                         !.flux_values = linspace(r[1], r[2], n),
                         !.energy_levels = zeros(n, w)]
     ELSE IF LoopMissing(FindLoop(c))
       THEN [none EXCEPT !.error = "ValueError: No flux loop found in circuit",
                         !.flux_values = linspace(r[1], r[2], n),
                         !.energy_levels = zeros(n, w)]
     ELSE [error |-> NoError,
           flux_values |-> linspace(r[1], r[2], n),
           energy_levels |-> zeros(n, w),
           loop |-> FindLoop(c)]

\* ---------------------------------------------------------------- plot_anti_crossing
\* a - b on floats: NaN as soon as one of them is NaN
FSub(a, b) == IF a.nan \/ b.nan THEN NaN ELSE Num(a.v - b.v)

\* np.abs on a float
FAbs(a) == IF a.nan THEN NaN ELSE Num(Abs(a.v))

\* variant: among equal minima the last position wins
argminLast(a) ==
  LET nans == {k \in 1..Len(a) : a[k].nan}
      mins == {k \in 1..Len(a) : \A j \in 1..Len(a) : a[k].v <= a[j].v}
  IN IF nans # {} THEN (CHOOSE k \in nans : \A j \in nans : k <= j) - 1
     ELSE (CHOOSE k \in mins : \A j \in mins : j <= k) - 1

\* np.argmin of a non-empty 1-D float array, 0-based: the position of the first
\* NaN if there is one, else the first position of the minimum
argmin(a) ==
  LET nans == {k \in 1..Len(a) : a[k].nan}
      mins == {k \in 1..Len(a) : \A j \in 1..Len(a) : a[k].v <= a[j].v}
  IN IF nans # {} THEN (CHOOSE k \in nans : \A j \in nans : k <= j) - 1
     ELSE (CHOOSE k \in mins : \A j \in mins : k <= j) - 1

\* whether energy_levels[:, level] exists on an array of w columns
ColumnIndexOk(w, level) == -w <= level /\ level < w

\* energy_levels[:, level]: a negative index counts from the last column
Column(energy_levels, w, level) ==
  LET c == IF level < 0 THEN level + w ELSE level
  IN [p \in 1..Len(energy_levels) |-> energy_levels[p][c + 1]]

LevelNotAvailable(w, level) ==
  "ValueError: Level " \o ToString(level) \o " not available (max: " \o ToString(w - 1) \o ")"

IndexOutOfBounds(w, level) ==
  "IndexError: index " \o ToString(level) \o " is out of bounds for axis 1 with size "
    \o ToString(w)

EmptyArgmin == "ValueError: attempt to get argmin of an empty sequence"

\* a call that raised
Raised(msg) == [raised |-> TRUE, error |-> msg]

\* plot_anti_crossing(flux_values, energy_levels, level1, level2), w being
\* energy_levels.shape[1]: the exception raised, or the minimum gap the figure marks
plot_anti_crossing(flux_values, energy_levels, w, level1, level2) ==
  IF level2 >= w THEN Raised(LevelNotAvailable(w, level2))
  ELSE IF ~ColumnIndexOk(w, level1) THEN Raised(IndexOutOfBounds(w, level1))
  ELSE IF ~ColumnIndexOk(w, level2) THEN Raised(IndexOutOfBounds(w, level2))
  ELSE IF Len(energy_levels) = 0 THEN Raised(EmptyArgmin)
  ELSE
    LET col1 == Column(energy_levels, w, level1)
        col2 == Column(energy_levels, w, level2)
        gap == [p \in 1..Len(energy_levels) |-> FAbs(FSub(col2[p], col1[p]))]
        min_gap_idx == argmin(gap)
    IN [raised |-> FALSE, error |-> NoError,
        min_gap_idx |-> min_gap_idx,
        min_gap |-> gap[min_gap_idx + 1],
        min_gap_flux |-> flux_values[min_gap_idx + 1]]

\* the table flux_sweep hands back for the given per-sample outcomes, in order:
\* a failed sample gets the recovery row, the others their stored energies
RECURSIVE FillRows(_, _, _, _)
FillRows(table, k, outs, w) ==
  IF k = Len(outs) THEN table
  ELSE FillRows(IF outs[k + 1].raised THEN RecoverRow(table, k, w)
                ELSE StoreRow(table, k, w, outs[k + 1].energies),
                k + 1, outs, w)

SweepTable(outs, w) == FillRows(zeros(Len(outs), w), 0, outs, w)

\* ---------------------------------------------------------------- metrics
\* Python None, and a value that is present
None == <<>>

Some(v) == <<v>>

NeedTwoLevels == "ValueError: Need at least 2 energy levels"

\* variant: three levels are demanded
calculate_gate_metrics_min3(energies) ==
  IF Len(energies) < 3 THEN Raised(NeedTwoLevels)
  ELSE [raised |-> FALSE, error |-> NoError,
        ground_state_energy |-> energies[1],
        first_excited_energy |-> energies[2],
        transition_frequency |-> energies[2] - energies[1],
        anharmonicity |-> Some((energies[3] - energies[2]) - (energies[2] - energies[1]))]

\* variant: the first excited energy itself is reported as transition frequency
calculate_gate_metrics_abs(energies) ==
  IF Len(energies) < 2 THEN Raised(NeedTwoLevels)
  ELSE [raised |-> FALSE, error |-> NoError,
        ground_state_energy |-> energies[1],
        first_excited_energy |-> energies[2],
        transition_frequency |-> energies[2],
        anharmonicity |->
          IF Len(energies) >= 3
          THEN Some((energies[3] - energies[2]) - (energies[2] - energies[1]))
          ELSE None]

\* variant: with two levels the anharmonicity is reported as zero
calculate_gate_metrics_zero(energies) ==
  IF Len(energies) < 2 THEN Raised(NeedTwoLevels)
  ELSE [raised |-> FALSE, error |-> NoError,
        ground_state_energy |-> energies[1],
        first_excited_energy |-> energies[2],
        transition_frequency |-> energies[2] - energies[1],
        anharmonicity |->
          IF Len(energies) >= 3
          THEN Some((energies[3] - energies[2]) - (energies[2] - energies[1]))
          ELSE Some(0)]

\* calculate_gate_metrics(energies): the exception raised, or the metrics dict
\* (the "else None" of the two entries guarded by len > 1 is never taken)
calculate_gate_metrics(energies) ==
  IF Len(energies) < 2 THEN Raised(NeedTwoLevels)
  ELSE [raised |-> FALSE, error |-> NoError,
        ground_state_energy |-> energies[1],
        first_excited_energy |-> energies[2],
        transition_frequency |-> energies[2] - energies[1],
        anharmonicity |->
          IF Len(energies) >= 3
          THEN Some((energies[3] - energies[2]) - (energies[2] - energies[1]))
          ELSE None]

\* variant: differences of neighbouring levels
compute_transition_frequencies_steps(energies) ==
  IF Len(energies) < 2 THEN Raised(NeedTwoLevels)
  ELSE [raised |-> FALSE, error |-> NoError,
        transitions |-> [j \in 1..(Len(energies) - 1) |-> energies[j + 1] - energies[j]]]

\* compute_transition_frequencies(energies): energies[1:] - energies[0]
compute_transition_frequencies(energies) ==
  IF Len(energies) < 2 THEN Raised(NeedTwoLevels)
  ELSE [raised |-> FALSE, error |-> NoError,
        transitions |-> [j \in 1..(Len(energies) - 1) |-> energies[j + 1] - energies[1]]]

\* ---------------------------------------------------------------- validate_flux
FluxOutOfRange == "ValueError: Flux must be between 0 and 1"

\* variant: the ends of the interval are refused
validate_flux_open(flux) ==
  IF ~(RatLess(<<0, 1>>, flux) /\ RatLess(flux, <<1, 1>>)) THEN Raised(FluxOutOfRange)
  ELSE [raised |-> FALSE, error |-> NoError, value |-> TRUE]

\* validate_flux(flux) for a number: raises unless 0 <= flux <= 1, else returns True
validate_flux(flux) ==
  IF ~(RatLeq(<<0, 1>>, flux) /\ RatLeq(flux, <<1, 1>>)) THEN Raised(FluxOutOfRange)
  ELSE [raised |-> FALSE, error |-> NoError, value |-> TRUE]

\* ---------------------------------------------------------------- validate_energy
\* energies above this many GHz are logged as unusually high
EnergyWarnLimit == 1000

EnergyNotPositive == "ValueError: Energy must be positive"

\* variant: zero is accepted
validate_energy_nonneg(energy) ==
  IF RatLess(energy, <<0, 1>>) THEN Raised(EnergyNotPositive)
  ELSE [raised |-> FALSE, error |-> NoError, value |-> TRUE,
        warned |-> RatLess(<<EnergyWarnLimit, 1>>, energy)]

\* validate_energy(energy) for a number: raises unless energy > 0, else returns
\* True, after a warning when the value is above the limit
validate_energy(energy) ==
  IF RatLeq(energy, <<0, 1>>) THEN Raised(EnergyNotPositive)
  ELSE [raised |-> FALSE, error |-> NoError, value |-> TRUE,
        warned |-> RatLess(<<EnergyWarnLimit, 1>>, energy)]

\* ---------------------------------------------------------------- builders
\* the circuit library refused to construct the circuit
LibraryError == "ValueError: circuit construction failed"

\* a builder call that raised after constructing `created` library objects
BuildRaised(msg, created) ==
  [raised |-> TRUE, error |-> msg, created |-> created, circuit |-> NoneCircuit,
   loops |-> <<>>, trunc |-> NoTrunc]

\* a builder call that returned circuit c with the given loop fluxes
Built(c, created, loops) ==
  [raised |-> FALSE, error |-> NoError, created |-> created, circuit |-> c,
   loops |-> loops, trunc |-> [m \in 1..c.modes |-> DefaultTrunc]]

\* the validations of a builder in the order written: the exception of the first
\* one that raises, NoError if none does
FirstError(checks) ==
  LET bad == {k \in 1..Len(checks) : checks[k].raised}
  IN IF bad = {} THEN NoError
     ELSE checks[CHOOSE k \in bad : \A m \in bad : k <= m].error

\* build_rql_inverter(Ej, Ec, flux): validation, then one loop, a junction and a
\* capacitor, then the circuit, which the library builds or refuses
build_rql_inverter(Ej, Ec, flux, libOk) ==
  LET err == FirstError(<<validate_energy(Ej), validate_energy(Ec), validate_flux(flux)>>)
  IN IF err # NoError THEN BuildRaised(err, 0)
     ELSE IF ~libOk THEN BuildRaised(LibraryError, 3)
     ELSE Built(InverterCircuit, 4, <<flux>>)

\* build_anb_gate(Ej1, Ej2, Ec, J, flux1, flux2): J is handed to the coupling
\* junction without any validation
build_anb_gate(Ej1, Ej2, Ec, J, flux1, flux2, libOk) ==
  LET err == FirstError(<<validate_energy(Ej1), validate_energy(Ej2), validate_energy(Ec),
                          validate_flux(flux1), validate_flux(flux2)>>)
  IN IF err # NoError THEN BuildRaised(err, 0)
     ELSE IF ~libOk THEN BuildRaised(LibraryError, 7)
     ELSE Built(AnbCircuit, 8, <<flux1, flux2>>)

\* build_rql_loop(Ej, Ec, El, flux)
build_rql_loop(Ej, Ec, El, flux, libOk) ==
  LET err == FirstError(<<validate_energy(Ej), validate_energy(Ec), validate_energy(El),
                          validate_flux(flux)>>)
  IN IF err # NoError THEN BuildRaised(err, 0)
     ELSE IF ~libOk THEN BuildRaised(LibraryError, 4)
     ELSE Built(RqlLoopCircuit, 5, <<flux>>)

\* ---------------------------------------------------------------- calculate_anharmonicity
NeedThreeLevels == "ValueError: Need at least 3 energy levels to calculate anharmonicity"

\* variant: the two level spacings are subtracted the other way round
calculate_anharmonicity_swapped(energies) ==
  IF Len(energies) < 3 THEN Raised(NeedThreeLevels)
  ELSE [raised |-> FALSE, error |-> NoError,
        anharmonicity |-> (energies[2] - energies[1]) - (energies[3] - energies[2])]

\* calculate_anharmonicity(energies): (E2 - E1) - (E1 - E0), or the exception raised
calculate_anharmonicity(energies) ==
  IF Len(energies) < 3 THEN Raised(NeedThreeLevels)
  ELSE [raised |-> FALSE, error |-> NoError,
        anharmonicity |-> (energies[3] - energies[2]) - (energies[2] - energies[1])]

\* ---------------------------------------------------------------- state
VARIABLES
  pc,             \* position of the one call this behaviour follows
  session,        \* st.session_state of the app: circuit, energies, flux_sweep_data
  circuit,        \* the circuit handed to the call
  trunc_nums,     \* circuit.trunc_nums
  loopValue,      \* value of each flux loop of the circuit
  initLoopValue,  \* the loop values at construction (history)
  call,           \* the single-point, analysis or validation call made, NoCall if none
  flux_range,     \* arguments of flux_sweep
  n_points,
  n_levels,
  flux_values,    \* locals of flux_sweep
  energy_levels,
  loop,
  i,
  events,         \* calls made on the circuit so far: <<kind, sample index>> (history)
  outcomes,       \* per processed sample: how it ended (history)
  error,          \* exception that left the call, NoError if none
  result          \* what the call returned, NoResult if nothing

vars == <<pc, session, circuit, trunc_nums, loopValue, initLoopValue, call, flux_range, n_points,
          n_levels, flux_values, energy_levels, loop, i, events, outcomes, error, result>>

NoResult == <<>>

NoCall == <<>>

\* flux the builders give a loop by default
BuildFlux == Rat(1, 2)

\* flux values offered as range ends: the multiples of 1/res from -1/res to 1 + 1/res
FluxInputs(res) == {Rat(k, res) : k \in -1..(res + 1)}

\* flux_range arguments offered: None, or any pair of flux inputs
RangeInputs(res) == {NoneRange} \cup (FluxInputs(res) \X FluxInputs(res))

\* truncation the builders configure: one number per mode
BuiltTrunc(c) == [m \in 1..c.modes |-> DefaultTrunc]

\* session state before anything was built: all three entries None
EmptySession == [circuit |-> NoneCircuit, energies |-> None, flux_sweep_data |-> None]

Init ==
  /\ pc = "idle"
  /\ session = EmptySession
  /\ circuit \in Circuits
  /\ trunc_nums \in (IF circuit.truncError = ValueError THEN {NoTrunc, BuiltTrunc(circuit)}
                      ELSE {NoTrunc})
  /\ loopValue = [l \in LoopIds |-> BuildFlux]
  /\ initLoopValue = loopValue
  /\ call = NoCall
  /\ flux_range = NoneRange
  /\ n_points = 0
  /\ n_levels = 0
  /\ flux_values = <<>>
  /\ energy_levels = <<>>
  /\ loop = NoLoop
  /\ i = 0
  /\ events = <<>>
  /\ outcomes = <<>>
  /\ error = NoError
  /\ result = NoResult

\* ---------------------------------------------------------------- flux_sweep
\* the call, up to the first iteration of the sweep loop, with arguments drawn
\* from the given sets
SweepCallWith(ranges, counts, widths) ==
  /\ pc = "idle"
  /\ \E range \in ranges, n \in counts, w \in widths :
       LET e == SweepEntry(circuit, range, n, w) IN
         /\ flux_range' = range
         /\ n_points' = n
         /\ n_levels' = w
         /\ flux_values' = e.flux_values
         /\ energy_levels' = e.energy_levels
         /\ loop' = e.loop
         /\ error' = IF e.error = NoError THEN NoError
                     ELSE "RuntimeError: Error during flux sweep: " \o e.error
         /\ pc' = IF e.error # NoError THEN "raised"
                  ELSE IF Len(e.flux_values) > 0 THEN "set" ELSE "exit"
  /\ UNCHANGED <<session, circuit, trunc_nums, loopValue, initLoopValue, call, i, events, outcomes, result>>

\* variant: the diagonalization is issued right after the flux assignment
StepAfterSkipsUpdate(stage) == "diag"

\* the statement that follows a completed statement of the loop body
StepAfter(stage) == IF stage = "set" THEN "update" ELSE "diag"

\* variant: only errors of the diagonalization are handled per point
CaughtOnlyDiag(stage) == stage = "diag"

\* except Exception: every error raised by the loop body is handled per point
Caught(stage) == TRUE

FluxSweepCall == SweepCallWith(RangeInputs(FluxRes), -1..MaxPoints, -1..MaxLevels)

\* next position once sample i is finished
NextSample ==
  /\ i' = i + 1
  /\ pc' = IF i + 1 < Len(flux_values) THEN "set" ELSE "exit"

\* variant: only a failed diagonalization fills the row; after a failed flux
\* assignment or update the zero row is left as it is
RecoverDiagOnly(stage, solverRaised) ==
  /\ outcomes' = Append(outcomes,
       [ok |-> FALSE, stage |-> stage, solverRaised |-> solverRaised, energies |-> <<>>])
  /\ energy_levels' = IF stage = "diag" THEN RecoverRow(energy_levels, i, n_levels)
                      ELSE energy_levels
  /\ NextSample
  /\ UNCHANGED error

\* the except branch for sample i
Recover(stage, solverRaised) ==
  /\ outcomes' = Append(outcomes,
       [ok |-> FALSE, stage |-> stage, solverRaised |-> solverRaised, energies |-> <<>>])
  /\ IF Caught(stage)
       THEN /\ energy_levels' = RecoverRow(energy_levels, i, n_levels)
            /\ NextSample
            /\ UNCHANGED error
       ELSE /\ pc' = "raised"
            /\ error' = "RuntimeError: Error during flux sweep: " \o stage
            /\ UNCHANGED <<energy_levels, i>>

\* loop.value = flux_val
SetFlux ==
  /\ pc = "set"
  /\ loopValue' = [loopValue EXCEPT ![loop] = flux_values[i + 1]]
  /\ events' = Append(events, <<"set", i>>)
  /\ pc' = StepAfter("set")
  /\ UNCHANGED <<session, circuit, trunc_nums, initLoopValue, call, flux_range, n_points, n_levels,
                 flux_values, energy_levels, loop, i, outcomes, error, result>>

\* loop.value = flux_val raises
SetFluxFails ==
  /\ pc = "set"
  /\ events' = Append(events, <<"set", i>>)
  /\ Recover("set", FALSE)
  /\ UNCHANGED <<session, circuit, trunc_nums, loopValue, initLoopValue, call, flux_range, n_points,
                 n_levels, flux_values, loop, result>>

\* circuit.update()
UpdateCircuit ==
  /\ pc = "update"
  /\ events' = Append(events, <<"update", i>>)
  /\ pc' = StepAfter("update")
  /\ UNCHANGED <<session, circuit, trunc_nums, loopValue, initLoopValue, call, flux_range, n_points,
                 n_levels, flux_values, energy_levels, loop, i, outcomes, error, result>>

\* circuit.update() raises
UpdateFails ==
  /\ pc = "update"
  /\ events' = Append(events, <<"update", i>>)
  /\ Recover("update", FALSE)
  /\ UNCHANGED <<session, circuit, trunc_nums, loopValue, initLoopValue, call, flux_range, n_points,
                 n_levels, flux_values, loop, result>>

\* diagonalize_hamiltonian for sample i, then store or recover, the solver
\* behaving in one of the given ways
DiagonalizePointWith(outs) ==
  /\ pc = "diag"
  /\ \E out \in outs :
       LET d == diagonalize_hamiltonian(circuit, trunc_nums, out) IN
         /\ trunc_nums' = d.trunc
         /\ events' = IF d.called THEN Append(events, <<"diag", i>>) ELSE events
         /\ IF d.raised
              THEN Recover("diag", d.called /\ out.raised)
              ELSE /\ energy_levels' = StoreRow(energy_levels, i, n_levels, d.energies)
                   /\ outcomes' = Append(outcomes,
                        [ok |-> TRUE, stage |-> "diag", solverRaised |-> FALSE,
                         energies |-> d.energies])
                   /\ NextSample
                   /\ UNCHANGED error
  /\ UNCHANGED <<session, circuit, loopValue, initLoopValue, call, flux_range, n_points, n_levels,
                 flux_values, loop, result>>

DiagonalizePoint == DiagonalizePointWith(SolverOutcomes)

\* variant: the loop gets back the flux it had before the call
SweepReturnRestores ==
  /\ pc = "exit"
  /\ pc' = "returned"
  /\ result' = <<flux_values, energy_levels>>
  /\ loopValue' = initLoopValue
  /\ UNCHANGED <<session, circuit, trunc_nums, initLoopValue, call, flux_range, n_points,
                 n_levels, flux_values, energy_levels, loop, i, events, outcomes, error>>

\* return flux_values, energy_levels
SweepReturn ==
  /\ pc = "exit"
  /\ pc' = "returned"
  /\ result' = <<flux_values, energy_levels>>
  /\ UNCHANGED <<session, circuit, trunc_nums, loopValue, initLoopValue, call, flux_range, n_points,
                 n_levels, flux_values, energy_levels, loop, i, events, outcomes, error>>

\* ---------------------------------------------------------------- single-point call
\* diagonalize_hamiltonian called directly (main.py, app.py)
DiagonalizeCallWith(outs) ==
  /\ pc = "idle"
  /\ \E w \in 1..MaxLevels : \E out \in outs[w] :
       LET d == diagonalize_hamiltonian(circuit, trunc_nums, out) IN
         /\ call' = [fn |-> "diagonalize_hamiltonian", args |-> <<trunc_nums, w>>]
         /\ n_levels' = w
         /\ trunc_nums' = d.trunc
         /\ events' = IF d.called THEN Append(events, <<"diag", 0>>) ELSE events
         /\ outcomes' = Append(outcomes,
              [ok |-> ~d.raised, stage |-> "diag",
               solverRaised |-> d.called /\ out.raised, energies |-> d.energies])
         /\ error' = IF d.raised THEN "RuntimeError: Error diagonalizing Hamiltonian"
                     ELSE NoError
         /\ result' = IF d.raised THEN NoResult ELSE <<d.energies>>
         /\ pc' = IF d.raised THEN "dh_raised" ELSE "dh_returned"
  /\ UNCHANGED <<session, circuit, loopValue, initLoopValue, flux_range, n_points, flux_values,
                 energy_levels, loop, i>>

DiagonalizeCall == DiagonalizeCallWith(DiagAny)

\* ---------------------------------------------------------------- callers of diagonalize_hamiltonian
\* n_levels calculate_coupling_strength asks for on each of its two circuits
CouplingLevels == 2

\* n_levels simulate_time_evolution asks for
EvolutionLevels == 10

\* 0.1 * min(abs(E1[0] - E2[0]), 1.0), in tenths
CouplingEstimate(E1, E2) == Rat(Min(Abs(E1[1] - E2[1]), 1), 10)

\* calculate_coupling_strength(circuit1, circuit2): circuit1 is the circuit of the
\* state, circuit2 the same object again or None. Two calls of
\* diagonalize_hamiltonian, the second only when the first returned; the first
\* may configure the truncation, which the second then finds configured. An
\* exception of either call leaves the function as it is (bare raise).
CouplingStrengthCall ==
  /\ pc = "idle"
  /\ \E circuit2 \in {circuit, NoneCircuit} :
       \E out1 \in SolverOutcomes, out2 \in SolverOutcomes :
         LET d1 == diagonalize_hamiltonian(circuit, trunc_nums, out1)
             d2 == diagonalize_hamiltonian(circuit2, d1.trunc, out2)
             raised == d1.raised \/ d2.raised
             made1 == [ok |-> ~d1.raised, stage |-> "diag",
                       solverRaised |-> d1.called /\ out1.raised,
                       energies |-> d1.energies]
             made2 == [ok |-> ~d2.raised, stage |-> "diag",
                       solverRaised |-> d2.called /\ out2.raised,
                       energies |-> d2.energies]
             ev1 == IF d1.called THEN Append(events, <<"diag", 0>>) ELSE events
         IN
           /\ call' = [fn |-> "calculate_coupling_strength",
                       args |-> <<trunc_nums, CouplingLevels, circuit2>>]
           /\ n_levels' = CouplingLevels
           /\ trunc_nums' = IF d1.raised THEN d1.trunc ELSE d2.trunc
           /\ events' = IF d1.raised \/ ~d2.called THEN ev1
                         ELSE Append(ev1, <<"diag", 0>>)
           /\ outcomes' = IF d1.raised THEN Append(outcomes, made1)
                           ELSE Append(Append(outcomes, made1), made2)
           /\ error' = IF raised THEN "RuntimeError: Error diagonalizing Hamiltonian"
                       ELSE NoError
           /\ result' = IF raised THEN NoResult
                        ELSE <<CouplingEstimate(d1.energies, d2.energies)>>
           /\ pc' = IF raised THEN "cs_raised" ELSE "cs_returned"
  /\ UNCHANGED <<session, circuit, loopValue, initLoopValue, flux_range, n_points, flux_values,
                 energy_levels, loop, i>>

\* simulate_time_evolution(circuit) with its default arguments: one call of
\* diagonalize_hamiltonian, then the Hamiltonian diag(energies), the ground state
\* basis(len(energies), 0) and sesolve of the time-evolution library, which
\* returns its result or raises. Every exception leaves as a RuntimeError.
TimeEvolutionCall ==
  /\ pc = "idle"
  /\ \E out \in SolverOutcomes, evolves \in BOOLEAN :
       LET d == diagonalize_hamiltonian(circuit, trunc_nums, out)
           raised == d.raised \/ ~evolves
       IN
         /\ call' = [fn |-> "simulate_time_evolution", args |-> <<trunc_nums, EvolutionLevels>>]
         /\ n_levels' = EvolutionLevels
         /\ trunc_nums' = d.trunc
         /\ events' = IF d.called THEN Append(events, <<"diag", 0>>) ELSE events
         /\ outcomes' = Append(outcomes,
              [ok |-> ~d.raised, stage |-> "diag",
               solverRaised |-> d.called /\ out.raised, energies |-> d.energies])
         /\ error' = IF raised THEN "RuntimeError: Error in time evolution" ELSE NoError
         /\ result' = IF raised THEN NoResult
                      ELSE <<[hamiltonian |-> d.energies, initial_state |-> 0]>>
         /\ pc' = IF raised THEN "te_raised" ELSE "te_returned"
  /\ UNCHANGED <<session, circuit, loopValue, initLoopValue, flux_range, n_points, flux_values,
                 energy_levels, loop, i>>

Next ==
  \/ FluxSweepCall
  \/ SetFlux
  \/ SetFluxFails
  \/ UpdateCircuit
  \/ UpdateFails
  \/ DiagonalizePoint
  \/ SweepReturn
  \/ DiagonalizeCall
  \/ CouplingStrengthCall
  \/ TimeEvolutionCall

Spec == Init /\ [][Next]_vars

\* ---------------------------------------------------------------- grid specification
\* The same flux_sweep on the circuits of the three builders, with sweeps of up
\* to MaxGridPoints samples, range ends at resolution GridFluxRes and a solver
\* that either raises or hands back the levels 1, 2.
GridInit ==
  /\ Init
  /\ circuit \in {InverterCircuit, AnbCircuit, RqlLoopCircuit}
  /\ trunc_nums = BuiltTrunc(circuit)

GridSweepCall == SweepCallWith(RangeInputs(GridFluxRes), 0..MaxGridPoints, {MaxLevels})

GridDiagonalizePoint == DiagonalizePointWith({SolverRaises, SolverReturns(<<1, 2>>)})

GridNext ==
  \/ GridSweepCall
  \/ SetFlux
  \/ SetFluxFails
  \/ UpdateCircuit
  \/ UpdateFails
  \/ GridDiagonalizePoint
  \/ SweepReturn

SpecGrid == GridInit /\ [][GridNext]_vars

\* ---------------------------------------------------------------- analysis specification
\* One call of an analysis or validation function on inputs drawn from small sets.
\* Energies of the metric functions are counted in units of 0.5 GHz.
AnalysisInit ==
  /\ Init
  /\ circuit = InverterCircuit
  /\ trunc_nums = BuiltTrunc(circuit)

\* columns of the sweep tables analysed
TableWidths == {2}

\* energies a sample of an analysed sweep may have stored
TableEnergies == {0, 1, 3}

\* how one sample of a sweep can end: it failed, or its energies were stored
SampleOutcomes(w) == {SolverRaises} \cup {SolverReturns(es) : es \in [1..w -> TableEnergies]}

\* level indexes offered for a table of w columns
LevelInputs(w) == -(w + 1)..(w + 1)

\* energies handed to the metric functions
MetricEnergies == {-3, 0, 10, 19}

EnergyInputs == UNION {[1..k -> MetricEnergies] : k \in 0..MaxEnergies}

\* fluxes handed to validate_flux: -0.1, 0.0, 0.1, ..., 1.5
FluxArgs == {Rat(k, 10) : k \in -1..15}

\* the state after a call that gave r
Called(fn, args, r) ==
  /\ pc' = "called"
  /\ call' = [fn |-> fn, args |-> args]
  /\ error' = r.error
  /\ result' = IF r.raised THEN NoResult ELSE <<r>>
  /\ UNCHANGED <<session, circuit, trunc_nums, loopValue, initLoopValue, flux_range,
                 n_points, n_levels, flux_values, energy_levels, loop, i, events, outcomes>>

\* utils.plot_anti_crossing on the result of a sweep over the default range
PlotAntiCrossing ==
  /\ pc = "idle"
  /\ \E w \in TableWidths, n \in 0..MaxTablePoints :
       \E outs \in [1..n -> SampleOutcomes(w)], level1 \in LevelInputs(w),
          level2 \in LevelInputs(w) :
         LET grid == linspace(<<0, 1>>, <<1, 1>>, n)
             table == SweepTable(outs, w)
         IN Called("plot_anti_crossing", <<grid, table, w, level1, level2>>,
                   plot_anti_crossing(grid, table, w, level1, level2))

GateMetrics ==
  /\ pc = "idle"
  /\ \E energies \in EnergyInputs :
       Called("calculate_gate_metrics", <<energies>>, calculate_gate_metrics(energies))

TransitionFrequencies ==
  /\ pc = "idle"
  /\ \E energies \in EnergyInputs :
       Called("compute_transition_frequencies", <<energies>>,
              compute_transition_frequencies(energies))

ValidateFlux ==
  /\ pc = "idle"
  /\ \E flux \in FluxArgs : Called("validate_flux", <<flux>>, validate_flux(flux))

\* energies handed to validate_energy, in GHz: -1, 0, 0.1, 10, 1000, 1001
EnergyArgs == {Rat(-1, 1), Rat(0, 1), Rat(1, 10), Rat(10, 1), Rat(EnergyWarnLimit, 1),
               Rat(EnergyWarnLimit + 1, 1)}

ValidateEnergy ==
  /\ pc = "idle"
  /\ \E energy \in EnergyArgs : Called("validate_energy", <<energy>>, validate_energy(energy))

\* calculate_anharmonicity and calculate_gate_metrics applied to the same energies:
\* both outcomes are kept, whether raised or returned
AnharmonicityBoth ==
  /\ pc = "idle"
  /\ \E energies \in EnergyInputs :
       LET a == calculate_anharmonicity(energies)
           m == calculate_gate_metrics(energies)
       IN /\ pc' = "called"
          /\ call' = [fn |-> "calculate_anharmonicity+calculate_gate_metrics",
                      args |-> <<energies>>]
          /\ error' = a.error
          /\ result' = <<a, m>>
  /\ UNCHANGED <<session, circuit, trunc_nums, loopValue, initLoopValue, flux_range,
                 n_points, n_levels, flux_values, energy_levels, loop, i, events, outcomes>>

\* the state after a builder call that gave r: what it returned, and how many
\* library objects it had constructed
BuilderCalled(fn, args, r) ==
  /\ pc' = "called"
  /\ call' = [fn |-> fn, args |-> args, created |-> r.created]
  /\ error' = r.error
  /\ result' = IF r.raised THEN NoResult ELSE <<r>>
  /\ UNCHANGED <<session, circuit, trunc_nums, loopValue, initLoopValue, flux_range,
                 n_points, n_levels, flux_values, energy_levels, loop, i, events, outcomes>>

\* energies and fluxes handed to the builders: -1, 0, 10 GHz and -0.1, 0.5, 1.5
BuildEnergies == {Rat(-1, 1), Rat(0, 1), Rat(10, 1)}

BuildFluxes == {Rat(-1, 10), Rat(1, 2), Rat(3, 2)}

BuildInverter ==
  /\ pc = "idle"
  /\ \E Ej \in BuildEnergies, Ec \in BuildEnergies, flux \in BuildFluxes, libOk \in BOOLEAN :
       BuilderCalled("build_rql_inverter", <<Ej, Ec, flux>>, build_rql_inverter(Ej, Ec, flux, libOk))

BuildAnb ==
  /\ pc = "idle"
  /\ \E Ej1 \in BuildEnergies, Ej2 \in BuildEnergies, Ec \in BuildEnergies,
        J \in BuildEnergies, flux1 \in BuildFluxes, flux2 \in BuildFluxes, libOk \in BOOLEAN :
       BuilderCalled("build_anb_gate", <<Ej1, Ej2, Ec, J, flux1, flux2>>,
              build_anb_gate(Ej1, Ej2, Ec, J, flux1, flux2, libOk))

BuildRqlLoop ==
  /\ pc = "idle"
  /\ \E Ej \in BuildEnergies, Ec \in BuildEnergies, El \in BuildEnergies,
        flux \in BuildFluxes, libOk \in BOOLEAN :
       BuilderCalled("build_rql_loop", <<Ej, Ec, El, flux>>, build_rql_loop(Ej, Ec, El, flux, libOk))

AnalysisNext ==
  \/ BuildInverter
  \/ BuildAnb
  \/ BuildRqlLoop
  \/ PlotAntiCrossing
  \/ GateMetrics
  \/ TransitionFrequencies
  \/ ValidateFlux
  \/ ValidateEnergy
  \/ AnharmonicityBoth

SpecAnalysis == AnalysisInit /\ [][AnalysisNext]_vars

\* ---------------------------------------------------------------- app specification
\* app.py: every interaction runs the script once, first the build block, then the
\* simulation block; st.session_state lives on between the runs. The inputs are
\* the two buttons, the gate type and the sweep checkbox; the sliders only offer
\* valid parameters, so a build fails only inside the circuit library. A sweep of
\* the app has 1..MaxAppPoints samples and MaxLevels levels, and its flux
\* assignments and updates succeed. Every display call (st.spinner, st.success,
\* st.pyplot, ...) and every access of st.session_state yields to the script
\* runner, which may end the script run there, before the call or the access
\* acts, on a rerun or stop request; that is no Exception, so no handler of the
\* script catches it.
AppInit ==
  /\ Init
  /\ circuit = NoneCircuit
  /\ trunc_nums = NoTrunc

Gates == {"Inverter", "A-NOT-B (ANB)", "RQL Loop"}

\* the builder call the build block makes for a gate type, with the slider defaults
AppBuilder(gate, libOk) ==
  IF gate = "Inverter"
    THEN build_rql_inverter(Rat(10, 1), Rat(1, 5), Rat(1, 2), libOk)
  ELSE IF gate = "A-NOT-B (ANB)"
    THEN build_anb_gate(Rat(10, 1), Rat(10, 1), Rat(1, 5), Rat(1, 2), Rat(1, 2), Rat(1, 2),
                        libOk)
  ELSE build_rql_loop(Rat(10, 1), Rat(1, 5), Rat(1, 10), Rat(1, 2), libOk)

\* session state after the builder returned: the circuit is stored, the results
\* of earlier runs are still there
SessionWithCircuit(s, c) == [s EXCEPT !.circuit = c]

\* session state after the success message of the build: both results cleared
SessionAfterBuild(s) == [s EXCEPT !.energies = None, !.flux_sweep_data = None]

\* what a display call does: the message is shown, the call raises an Exception,
\* or the script runner ends the script run
DisplayOutcomes == {"shown", "raised", "interrupted"}

\* the script runner's exception that ended the run
Interrupted == "script run interrupted"

\* whether the script runner ends the run at one of the two session-state
\* assignments that close a block: at neither, at the first (nothing assigned
\* yet), or at the second (only the first has acted)
RunEnds == {"no", "before stores", "between stores"}

\* session state after 'st.session_state.energies = None' of the build block
SessionEnergiesCleared(s) == [s EXCEPT !.energies = None]

\* session state after 'st.session_state.flux_sweep_data = (...)' alone
SessionWithSweep(s, data) == [s EXCEPT !.flux_sweep_data = Some(data)]

\* session state after 'st.session_state.energies = energies' alone
SessionWithEnergies(s, energies) == [s EXCEPT !.energies = Some(energies)]

\* variant: the energies of an earlier single-point run are kept next to the sweep
SessionAfterSweepKeeps(s, data) == [s EXCEPT !.flux_sweep_data = Some(data)]

\* session state after both assignments that follow flux_sweep
SessionAfterSweep(s, data) ==
  [s EXCEPT !.flux_sweep_data = Some(data), !.energies = None]

\* session state after both assignments that follow diagonalize_hamiltonian
SessionAfterEnergies(s, energies) ==
  [s EXCEPT !.energies = Some(energies), !.flux_sweep_data = None]

\* a script run starts: the inputs of this run
AppRun ==
  /\ pc = "idle"
  /\ \E build_button \in BOOLEAN, simulate_button \in BOOLEAN, gate \in Gates,
        perform_flux_sweep \in BOOLEAN :
       /\ call' = [fn |-> "app.main",
                   args |-> <<build_button, simulate_button, gate, perform_flux_sweep>>]
       /\ pc' = IF build_button THEN "app_build" ELSE "app_simulate"
  /\ UNCHANGED <<session, circuit, trunc_nums, loopValue, initLoopValue, flux_range, n_points,
                 n_levels, flux_values, energy_levels, loop, i, events, outcomes, error,
                 result>>

\* if build_button: the builder is called and the circuit it returns is stored;
\* an exception of the builder is shown and changes nothing
AppBuild ==
  /\ pc = "app_build"
  /\ \E libOk \in BOOLEAN :
       LET r == AppBuilder(call.args[3], libOk) IN
         IF r.raised
           THEN /\ error' = r.error
                /\ result' = <<"build failed">>
                /\ pc' = "app_simulate"
                /\ UNCHANGED <<session, trunc_nums, loopValue>>
           ELSE /\ session' = SessionWithCircuit(session, r.circuit)
                /\ trunc_nums' = r.trunc
                /\ loopValue' = [l \in LoopIds |->
                                   IF l <= Len(r.loops) THEN r.loops[l] ELSE loopValue[l]]
                /\ pc' = "app_built"
                /\ UNCHANGED <<error, result>>
  /\ UNCHANGED <<circuit, initLoopValue, call, flux_range, n_points, n_levels, flux_values,
                 energy_levels, loop, i, events, outcomes>>

\* st.success of the build block, then the two results are cleared, one
\* assignment after the other. When st.success raises, the handler of the block
\* shows the error and the run goes on; when the script run ends at st.success
\* or at the first assignment, the new circuit stays stored next to the results of
\* earlier runs; when it ends at the second, only the energies are cleared.
AppBuildShown ==
  /\ pc = "app_built"
  /\ \E shown \in DisplayOutcomes, ends \in RunEnds :
       IF shown = "raised"
         THEN /\ ends = "no"
              /\ error' = "Exception: success message not delivered"
              /\ result' = <<"build failed">>
              /\ pc' = "app_simulate"
              /\ UNCHANGED session
       ELSE IF shown = "interrupted" \/ ends = "before stores"
         THEN /\ error' = Interrupted
              /\ result' = <<"interrupted">>
              /\ pc' = "app_done"
              /\ UNCHANGED session
       ELSE IF ends = "between stores"
         THEN /\ session' = SessionEnergiesCleared(session)
              /\ error' = Interrupted
              /\ result' = <<"interrupted">>
              /\ pc' = "app_done"
       ELSE /\ session' = SessionAfterBuild(session)
            /\ error' = NoError
            /\ result' = <<"built">>
            /\ pc' = "app_simulate"
  /\ UNCHANGED <<circuit, trunc_nums, loopValue, initLoopValue, call, flux_range, n_points,
                 n_levels, flux_values, energy_levels, loop, i, events, outcomes>>

\* the script run ends at a display call or a session-state access made before
\* the block did anything (st.spinner of either block, the assignment of the
\* circuit, st.error of the build block, the reads of the circuit, st.warning)
AppInterrupted ==
  /\ pc \in {"app_build", "app_simulate"}
  /\ error' = Interrupted
  /\ result' = Append(result, "interrupted")
  /\ pc' = "app_done"
  /\ UNCHANGED <<session, circuit, trunc_nums, loopValue, initLoopValue, call, flux_range,
                 n_points, n_levels, flux_values, energy_levels, loop, i, events, outcomes>>

\* the simulation block does not run, or only warns that no circuit was built
AppNoSimulation ==
  /\ pc = "app_simulate"
  /\ session.circuit = NoneCircuit
  /\ result' = Append(result, IF call.args[2] THEN "no circuit" ELSE "nothing to do")
  /\ pc' = "app_done"
  /\ UNCHANGED <<session, circuit, trunc_nums, loopValue, initLoopValue, call, flux_range,
                 n_points, n_levels, flux_values, energy_levels, loop, i, events, outcomes,
                 error>>

\* the simulation block with the sweep checkbox set: flux_sweep over (0, 1), then
\* its data is stored and the energies are cleared, one assignment after the
\* other; after that the plot is shown, fails and the failure is shown, or the
\* script run ends at a display call. A run that ends at the first assignment has
\* swept the loop and stored nothing; one that ends at the second has stored the
\* data next to the energies of an earlier run.
AppSweep ==
  /\ pc = "app_simulate"
  /\ session.circuit # NoneCircuit
  /\ call.args[4]
  /\ \E n \in 1..MaxAppPoints, shown \in DisplayOutcomes, ends \in RunEnds :
       \E outs \in [1..n -> {SolverRaises, SolverReturns(Ascending(MaxLevels))}] :
         LET e == SweepEntry(session.circuit, <<Rat(0, 1), Rat(1, 1)>>, n, MaxLevels)
             data == <<e.flux_values, SweepTable(outs, MaxLevels)>>
         IN
           IF e.error # NoError
             THEN /\ ends = "no"
                  /\ shown = "shown"
                  /\ error' = e.error
                  /\ result' = Append(result, "simulation failed")
                  /\ UNCHANGED <<session, loopValue>>
           ELSE /\ loopValue' = [loopValue EXCEPT ![e.loop] = e.flux_values[n]]
                /\ IF ends = "before stores"
                     THEN /\ shown = "shown"
                          /\ error' = Interrupted
                          /\ result' = Append(result, "interrupted")
                          /\ UNCHANGED session
                   ELSE IF ends = "between stores"
                     THEN /\ shown = "shown"
                          /\ session' = SessionWithSweep(session, data)
                          /\ error' = Interrupted
                          /\ result' = Append(result, "sweep stored")
                   ELSE /\ session' = SessionAfterSweep(session, data)
                        /\ error' = IF shown = "shown" THEN NoError
                                    ELSE IF shown = "raised" THEN "Error plotting flux sweep"
                                    ELSE Interrupted
                        /\ result' = Append(result, "sweep stored")
  /\ pc' = "app_done"
  /\ UNCHANGED <<circuit, trunc_nums, initLoopValue, call, flux_range, n_points, n_levels,
                 flux_values, energy_levels, loop, i, events, outcomes>>

\* the simulation block without the checkbox: diagonalize_hamiltonian, then its
\* energies are stored and the sweep data is cleared, one assignment after the
\* other, then the plot as in AppSweep; an exception of diagonalize_hamiltonian
\* is shown and leaves the session as it was. A run that ends at the second
\* assignment has stored the energies next to the sweep data of an earlier run.
AppSinglePoint ==
  /\ pc = "app_simulate"
  /\ session.circuit # NoneCircuit
  /\ ~call.args[4]
  /\ \E out \in SolverOutcomes, shown \in DisplayOutcomes, ends \in RunEnds :
       LET d == diagonalize_hamiltonian(session.circuit, trunc_nums, out) IN
         /\ trunc_nums' = d.trunc
         /\ IF d.raised
              THEN /\ ends = "no"
                   /\ shown = "shown"
                   /\ error' = "RuntimeError: Error diagonalizing Hamiltonian"
                   /\ result' = Append(result, "simulation failed")
                   /\ UNCHANGED session
            ELSE IF ends = "before stores"
              THEN /\ shown = "shown"
                   /\ error' = Interrupted
                   /\ result' = Append(result, "interrupted")
                   /\ UNCHANGED session
            ELSE IF ends = "between stores"
              THEN /\ shown = "shown"
                   /\ session' = SessionWithEnergies(session, d.energies)
                   /\ error' = Interrupted
                   /\ result' = Append(result, "energies stored")
            ELSE /\ session' = SessionAfterEnergies(session, d.energies)
                 /\ error' = IF shown = "shown" THEN NoError
                             ELSE IF shown = "raised" THEN "Error plotting energy spectrum"
                             ELSE Interrupted
                 /\ result' = Append(result, "energies stored")
  /\ pc' = "app_done"
  /\ UNCHANGED <<circuit, loopValue, initLoopValue, call, flux_range, n_points, n_levels,
                 flux_values, energy_levels, loop, i, events, outcomes>>

\* the script run is over; the session state stays for the next run
AppRerun ==
  /\ pc = "app_done"
  /\ pc' = "idle"
  /\ call' = NoCall
  /\ error' = NoError
  /\ result' = NoResult
  /\ UNCHANGED <<session, circuit, trunc_nums, loopValue, initLoopValue, flux_range, n_points,
                 n_levels, flux_values, energy_levels, loop, i, events, outcomes>>

AppNext ==
  \/ AppRun
  \/ AppBuild
  \/ AppBuildShown
  \/ AppInterrupted
  \/ AppNoSimulation
  \/ AppSweep
  \/ AppSinglePoint
  \/ AppRerun

SpecApp == AppInit /\ [][AppNext]_vars

\* ---------------------------------------------------------------- properties
\* positions of a flux_sweep call that got past its entry checks
SweepPcs == {"set", "update", "diag", "exit", "returned"}

\* the call followed is a flux_sweep call
IsSweepCall == pc \in SweepPcs \cup {"raised"}

\* the arguments satisfy 0 <= lo < hi <= 1
RangeOk ==
  LET lo == IF flux_range = NoneRange THEN <<0, 1>> ELSE flux_range[1]
      hi == IF flux_range = NoneRange THEN <<1, 1>> ELSE flux_range[2]
  IN /\ lo[1] >= 0
     /\ lo[1] * hi[2] < hi[1] * lo[2]
     /\ hi[1] <= hi[2]

\* a flux loop can be resolved on the circuit
HasLoop ==
  /\ ~circuit.isNone
  /\ \E l \in 1..Len(circuit.elements) :
       \E e \in 1..Len(circuit.elements[l]) :
         circuit.elements[l][e].isLoop \/ circuit.elements[l][e].loops # <<>>

\* samples processed so far, numbered from 0
Processed == 0..(Len(outcomes) - 1)

\* C1: for a valid range, n_points >= 1, n_levels >= 1 and a circuit with a flux
\* loop, flux_sweep does not raise, and what it returns is a grid of exactly
\* n_points values and a table of exactly n_points rows of n_levels slots,
\* whatever samples failed.
C1_ShapeKept ==
  (IsSweepCall /\ RangeOk /\ n_points >= 1 /\ n_levels >= 1 /\ HasLoop)
    => /\ pc # "raised"
       /\ pc = "returned" =>
            /\ Len(result[1]) = n_points
            /\ Len(result[2]) = n_points
            /\ \A r \in 1..Len(result[2]) : Len(result[2][r]) = n_levels

\* a sweep of several points returned although every sample failed
C1_Witness ==
  /\ pc = "returned"
  /\ n_points >= 2
  /\ n_levels >= 2
  /\ Len(outcomes) = n_points
  /\ \A j \in Processed : ~outcomes[j + 1].ok

\* C2: a failed first sample leaves row 0 all NaN; a failed later sample i leaves
\* row i equal to row i-1, slot by slot.
C2_RecoveryRows ==
  pc \in SweepPcs =>
    \A j \in Processed :
      ~outcomes[j + 1].ok =>
        IF j = 0
          THEN \A k \in 1..n_levels : energy_levels[1][k] = NaN
          ELSE energy_levels[j + 1] = energy_levels[j]

\* the first sample failed, a later one succeeded and the one after it failed
C2_Witness ==
  /\ pc = "returned"
  /\ n_levels >= 1
  /\ Len(outcomes) >= 3
  /\ ~outcomes[1].ok
  /\ outcomes[2].ok
  /\ ~outcomes[3].ok
  /\ energy_levels[3] = energy_levels[2]
  /\ energy_levels[2] # energy_levels[1]

\* C3: a failure at a sample never leaves flux_sweep and never stops it: an error
\* leaves the call only before the first sample, a returned sweep has processed
\* every sample, and a sample that succeeds after a failed one holds its own
\* eigenvalues in its row.
C3_FailureContained ==
  /\ pc = "raised" => (events = <<>> /\ outcomes = <<>>)
  /\ pc = "returned" => Len(outcomes) = n_points
  /\ pc \in SweepPcs =>
       \A j \in Processed :
         (outcomes[j + 1].ok /\ \E f \in 0..(j - 1) : ~outcomes[f + 1].ok) =>
           \A k \in 1..Min(n_levels, Len(outcomes[j + 1].energies)) :
             energy_levels[j + 1][k] = Num(outcomes[j + 1].energies[k])

\* after a failed sample a later sample succeeded with values of its own
C3_Witness ==
  /\ pc = "returned"
  /\ n_levels >= 1
  /\ \E f \in Processed, j \in Processed :
       /\ f >= 1
       /\ f < j
       /\ ~outcomes[f + 1].ok
       /\ outcomes[j + 1].ok
       /\ energy_levels[j + 1] # energy_levels[f + 1]

\* C4: a range that does not satisfy 0 <= lo < hi <= 1 makes flux_sweep raise
\* with nothing done: no flux loop written, no update, no diagonalization, no
\* result.
C4_InvalidRangeRejected ==
  (pc # "idle" /\ ~RangeOk) =>
    /\ pc = "raised"
    /\ error = "RuntimeError: Error during flux sweep: ValueError: Invalid flux range"
    /\ loopValue = initLoopValue
    /\ events = <<>>
    /\ outcomes = <<>>
    /\ result = NoResult

\* a range with lo = hi inside [0, 1] was rejected
C4_Witness ==
  /\ pc = "raised"
  /\ flux_range # NoneRange
  /\ flux_range[1] = flux_range[2]
  /\ RatLeq(Rat(0, 1), flux_range[1])
  /\ RatLeq(flux_range[2], Rat(1, 1))
  /\ n_points >= 1
  /\ HasLoop

\* C5: flux_sweep with n_points < 1 or n_levels < 1 (valid range, circuit with a
\* loop) raises before any computation: nothing is returned and the circuit is
\* not touched.
C5_SmallCountsRejected ==
  (IsSweepCall /\ RangeOk /\ HasLoop /\ (n_points < 1 \/ n_levels < 1)) =>
    /\ pc = "raised"
    /\ loopValue = initLoopValue
    /\ events = <<>>
    /\ result = NoResult

\* lo and hi of the call as numerator/denominator pairs
ArgLo == IF flux_range = NoneRange THEN <<0, 1>> ELSE flux_range[1]

ArgHi == IF flux_range = NoneRange THEN <<1, 1>> ELSE flux_range[2]

\* (b - a) * k = d - c for the rationals a, b, c, d
DiffTimesEq(a, b, k, c, d) ==
  (b[1] * a[2] - a[1] * b[2]) * k * (c[2] * d[2]) = (d[1] * c[2] - c[1] * d[2]) * (a[2] * b[2])

\* the grid starts at lo, is strictly increasing and evenly spaced with
\* step (hi - lo) / (n_points - 1)
GridEven(g) ==
  /\ Len(g) = n_points
  /\ g[1] = ArgLo
  /\ \A k \in 1..(Len(g) - 1) :
       /\ g[k][1] * g[k + 1][2] < g[k + 1][1] * g[k][2]
       /\ DiffTimesEq(g[k], g[k + 1], n_points - 1, ArgLo, ArgHi)
  /\ (flux_range = <<<<0, 1>>, <<1, 1>>>> /\ n_points = 5) =>
       g = << <<0, 1>>, <<1, 4>>, <<1, 2>>, <<3, 4>>, <<1, 1>> >>
  /\ pc = "returned" => result[1] = g

\* C6 as stated: for every n_points >= 1 the grid is the evenly spaced one and
\* ends at hi.
C6_GridEndsAtHi ==
  (pc \in SweepPcs /\ n_points >= 1) =>
    (GridEven(flux_values) /\ flux_values[n_points] = ArgHi)

\* C6 amended: for every n_points >= 1 the grid starts at lo, is strictly
\* increasing and evenly spaced with step (hi - lo) / (n_points - 1), whatever
\* samples failed; it ends at hi when n_points >= 2, and is the single value lo
\* when n_points = 1.
C6_GridEvenlySpaced ==
  (pc \in SweepPcs /\ n_points >= 1) =>
    /\ GridEven(flux_values)
    /\ n_points >= 2 => flux_values[n_points] = ArgHi
    /\ n_points = 1 => flux_values = <<ArgLo>>

\* the sweep of (0, 1) with 5 points returned its grid although samples failed
C6_Witness ==
  /\ pc = "returned"
  /\ flux_range = <<<<0, 1>>, <<1, 1>>>>
  /\ n_points = 5
  /\ ~outcomes[1].ok
  /\ outcomes[2].ok
  /\ ~outcomes[5].ok
  /\ result[1] = << <<0, 1>>, <<1, 4>>, <<1, 2>>, <<3, 4>>, <<1, 1>> >>

\* C7: samples are visited in index order with increasing flux; within a sample
\* the flux is assigned, then update runs, then the diagonalization; a
\* diagonalization of sample i happens only while the loop holds sample i's
\* value and after update ran for it; a sample is started only when all
\* earlier samples have their outcome.
C7_StepOrder ==
  pc \in SweepPcs =>
    /\ i = Len(outcomes)
    /\ \A p \in 1..Len(events) :
         /\ events[p][2] <= Len(outcomes)
         /\ events[p][2] = Len(outcomes) => pc \in {"update", "diag"}
         /\ events[p][1] = "set" =>
              \/ p = 1 /\ events[p][2] = 0
              \/ p > 1 /\ events[p][2] = events[p - 1][2] + 1
         /\ events[p][1] = "update" =>
              p > 1 /\ events[p - 1] = <<"set", events[p][2]>>
         /\ events[p][1] = "diag" =>
              p > 2 /\ events[p - 1] = <<"update", events[p][2]>>
                    /\ events[p - 2] = <<"set", events[p][2]>>
    /\ \A p \in 1..Len(events), q \in 1..Len(events) :
         (p < q /\ events[p][1] = "set" /\ events[q][1] = "set") =>
           RatLess(flux_values[events[p][2] + 1], flux_values[events[q][2] + 1])
    /\ pc \in {"update", "diag"} =>
         /\ loopValue[loop] = flux_values[i + 1]
         /\ events # <<>>
         /\ events[Len(events)] = <<(IF pc = "update" THEN "set" ELSE "update"), i>>

\* a sweep of several points in which every step of every sample ran
C7_Witness ==
  /\ pc = "returned"
  /\ n_points >= 3
  /\ Len(events) = 3 * n_points
  /\ \A j \in Processed : outcomes[j + 1].ok

\* C8: a sample whose diagonalization returns k eigenvalues has the first
\* min(k, n_levels) of them, in returned order, at the start of its row, and
\* zeros in the remaining slots.
C8_StoredRow ==
  pc \in SweepPcs =>
    \A j \in Processed :
      outcomes[j + 1].ok =>
        LET es == outcomes[j + 1].energies
            m == Min(Len(es), n_levels)
        IN /\ \A k \in 1..m : energy_levels[j + 1][k] = Num(es[k])
           /\ \A k \in (m + 1)..n_levels : energy_levels[j + 1][k] = Num(0)

\* one sample got fewer eigenvalues than slots and was padded, another filled its
\* row with eigenvalues handed back in descending order
C8_Witness ==
  /\ pc = "returned"
  /\ n_levels >= 2
  /\ \E a \in Processed, b \in Processed :
       /\ outcomes[a + 1].ok
       /\ Len(outcomes[a + 1].energies) < n_levels
       /\ energy_levels[a + 1][n_levels] = Num(0)
       /\ outcomes[b + 1].ok
       /\ Len(outcomes[b + 1].energies) >= n_levels
       /\ outcomes[b + 1].energies[1] > outcomes[b + 1].energies[2]
       /\ energy_levels[b + 1][1] = Num(outcomes[b + 1].energies[1])

\* C9: on a circuit with no resolvable flux loop flux_sweep raises at once: no
\* sample is processed, nothing is diagonalized, no row is recovered and
\* nothing is returned.
C9_NoLoopFatal ==
  (IsSweepCall /\ ~circuit.isNone /\ ~HasLoop) =>
    /\ pc = "raised"
    /\ events = <<>>
    /\ outcomes = <<>>
    /\ result = NoResult
    /\ loopValue = initLoopValue
    /\ (RangeOk /\ n_points >= 0 /\ n_levels >= 0) =>
         error = "RuntimeError: Error during flux sweep: ValueError: No flux loop found in circuit"

\* a sweep with valid arguments was refused for want of a flux loop
C9_Witness ==
  /\ pc = "raised"
  /\ circuit = NoLoopCircuit
  /\ RangeOk
  /\ n_points >= 1
  /\ n_levels >= 1
  /\ error = "RuntimeError: Error during flux sweep: ValueError: No flux loop found in circuit"

\* C10: a direct diagonalize_hamiltonian call on a None circuit, or whose solver
\* raises or hands back nothing, raises RuntimeError and returns no energies.
C10_SinglePointPropagates ==
  pc \in {"dh_raised", "dh_returned"} =>
    LET o == outcomes[Len(outcomes)] IN
      /\ (circuit.isNone \/ o.solverRaised) =>
           /\ pc = "dh_raised"
           /\ error = "RuntimeError: Error diagonalizing Hamiltonian"
           /\ result = NoResult
      /\ pc = "dh_returned" => (error = NoError /\ result = <<o.energies>> /\ o.energies # <<>>)

\* the solver raised on a real circuit and the call raised
C10_Witness ==
  /\ pc = "dh_raised"
  /\ ~circuit.isNone
  /\ outcomes[Len(outcomes)].solverRaised
  /\ result = NoResult

\* ---------------------------------------------------------------- C11
\* C11 (as stated): whenever diagonalize_hamiltonian returns for a request of
\* n_levels levels, the returned energies are in ascending order, the first one is
\* the minimum, and there are at most n_levels of them. The function hands back
\* what circuit.diag gave it, neither sorted nor cut to n_levels.
C11_SortedAtMostLevels ==
  pc = "dh_returned" =>
    LET es == result[1] IN
      /\ Len(es) <= n_levels
      /\ \A j \in 1..(Len(es) - 1) : es[j] <= es[j + 1]
      /\ \A j \in 1..Len(es) : es[1] <= es[j]

\* ---------------------------------------------------------------- C12
\* circuit.trunc_nums when the single-point call was made
TruncAtCall == call.args[1]

\* a direct call of diagonalize_hamiltonian, or a call of one of its two callers
\* in the simulator, has ended
DiagCallEnded ==
  pc \in {"dh_returned", "dh_raised", "cs_returned", "cs_raised", "te_returned", "te_raised"}

\* C12 (as stated): a diagonalize_hamiltonian call, successful or failed, leaves the
\* loop fluxes and the truncation configuration of the circuit as they were. On a
\* circuit without a truncation the function configures [50] or [50, 50] and
\* leaves that behind.
C12_ConfigurationKept ==
  DiagCallEnded =>
    /\ loopValue = initLoopValue
    /\ trunc_nums = TruncAtCall

\* ---------------------------------------------------------------- analysis calls
\* the call followed is a call of fn that has ended
IsCall(fn) == pc = "called" /\ call.fn = fn

ArgGrid == call.args[1]

ArgTable == call.args[2]

ArgWidth == call.args[3]

ArgLevel1 == call.args[4]

ArgLevel2 == call.args[5]

\* both level arguments are level indexes of the table
LevelsValid == ArgLevel1 \in 0..(ArgWidth - 1) /\ ArgLevel2 \in 0..(ArgWidth - 1)

\* no NaN in the two columns compared
ColumnsReal ==
  \A p \in 1..Len(ArgTable) :
    ~ArgTable[p][ArgLevel1 + 1].nan /\ ~ArgTable[p][ArgLevel2 + 1].nan

\* |E_b - E_a| at sample p (1-based) of a table whose two columns are real
GapAt(p) ==
  LET d == ArgTable[p][ArgLevel2 + 1].v - ArgTable[p][ArgLevel1 + 1].v
  IN IF d < 0 THEN -d ELSE d

\* ---------------------------------------------------------------- C13
\* C13: on a non-empty sweep table of real energies and two valid level indexes a, b
\* the analysis gives the smallest |E_b - E_a| over the samples, the smallest index
\* where it is attained, and the grid value at that index.
C13_MinGapFirstIndex ==
  (IsCall("plot_anti_crossing") /\ LevelsValid /\ Len(ArgTable) > 0 /\ ColumnsReal) =>
    /\ error = "none"
    /\ result # <<>>
    /\ LET r == result[1]
           k == r.min_gap_idx + 1
       IN /\ k \in 1..Len(ArgTable)
          /\ r.min_gap = [nan |-> FALSE, v |-> GapAt(k)]
          /\ \A p \in 1..Len(ArgTable) : GapAt(k) <= GapAt(p)
          /\ \A p \in 1..(k - 1) : GapAt(p) > GapAt(k)
          /\ r.min_gap_flux = ArgGrid[k]

\* three samples, the smallest gap at the second and again at the third
C13_Witness ==
  /\ IsCall("plot_anti_crossing")
  /\ LevelsValid
  /\ Len(ArgTable) = 3
  /\ ColumnsReal
  /\ GapAt(1) > GapAt(2)
  /\ GapAt(3) = GapAt(2)
  /\ result # <<>>
  /\ result[1].min_gap_idx = 1

\* ---------------------------------------------------------------- C14
\* C14 (as stated): a call whose first or second level is negative or >= the
\* number of levels raises an error naming that index and computes no gap.
C14_InvalidLevelRejected ==
  (IsCall("plot_anti_crossing") /\ ~LevelsValid) =>
    /\ result = <<>>
    /\ \E l \in {ArgLevel1, ArgLevel2} \ (0..(ArgWidth - 1)) :
         error \in {"ValueError: Level " \o ToString(l) \o " not available (max: "
                      \o ToString(ArgWidth - 1) \o ")",
                    "IndexError: index " \o ToString(l)
                      \o " is out of bounds for axis 1 with size " \o ToString(ArgWidth)}

\* ---------------------------------------------------------------- C15
\* C15 (as stated): on every non-empty table flux_sweep can return, recovery rows
\* included, and valid level indexes the minimum gap is a real number >= 0, the
\* index is one of the samples and the parameter is the grid value at that index.
C15_GapRealNonNegative ==
  (IsCall("plot_anti_crossing") /\ LevelsValid /\ Len(ArgTable) > 0) =>
    /\ result # <<>>
    /\ ~result[1].min_gap.nan
    /\ result[1].min_gap.v >= 0
    /\ result[1].min_gap_idx \in 0..(Len(ArgTable) - 1)
    /\ result[1].min_gap_flux = ArgGrid[result[1].min_gap_idx + 1]

\* ---------------------------------------------------------------- C16
\* C16: calculate_gate_metrics raises "Need at least 2 energy levels" for every
\* sequence of length 0 or 1 and returns nothing; for length >= 2 it returns
\* metrics without raising.
C16_MetricsNeedTwo ==
  IsCall("calculate_gate_metrics") =>
    LET e == call.args[1] IN
      /\ Len(e) < 2 => (result = <<>> /\ error = "ValueError: Need at least 2 energy levels")
      /\ Len(e) >= 2 => (result # <<>> /\ error = "none")

\* a single energy was refused
C16_Witness ==
  /\ IsCall("calculate_gate_metrics")
  /\ Len(call.args[1]) = 1
  /\ result = <<>>
  /\ error # "none"

\* ---------------------------------------------------------------- C17
\* C17: for two or more energies the metrics give ground_state_energy = e[0],
\* first_excited_energy = e[1] and transition_frequency = e[1] - e[0].
C17_GroundExcitedTransition ==
  (IsCall("calculate_gate_metrics") /\ Len(call.args[1]) >= 2) =>
    LET e == call.args[1] IN
      /\ result # <<>>
      /\ result[1].ground_state_energy = e[1]
      /\ result[1].first_excited_energy = e[2]
      /\ result[1].transition_frequency = e[2] - e[1]

\* a ground energy other than zero: the transition differs from the excited energy
C17_Witness ==
  /\ IsCall("calculate_gate_metrics")
  /\ Len(call.args[1]) >= 2
  /\ call.args[1][1] < 0
  /\ result # <<>>
  /\ result[1].transition_frequency = call.args[1][2] - call.args[1][1]
  /\ result[1].transition_frequency # result[1].first_excited_energy

\* ---------------------------------------------------------------- C18
\* C18: for three or more energies anharmonicity = (e[2] - e[1]) - (e[1] - e[0]);
\* for exactly two it is None, neither zero nor an error.
C18_Anharmonicity ==
  IsCall("calculate_gate_metrics") =>
    LET e == call.args[1] IN
      /\ Len(e) >= 3 =>
           (result # <<>> /\ result[1].anharmonicity = <<(e[3] - e[2]) - (e[2] - e[1])>>)
      /\ Len(e) = 2 =>
           (error = "none" /\ result # <<>> /\ result[1].anharmonicity = <<>>)

\* the energies 0.0, 5.0, 9.5 GHz: transition 5.0, anharmonicity -0.5 (units of 0.5 GHz)
C18_Witness ==
  /\ IsCall("calculate_gate_metrics")
  /\ call.args[1] = <<0, 10, 19>>
  /\ result # <<>>
  /\ result[1].transition_frequency = 10
  /\ result[1].anharmonicity = <<-1>>

\* ---------------------------------------------------------------- C19
\* C19: for n >= 2 energies compute_transition_frequencies returns n - 1 values,
\* the j-th being e[j+1] - e[0]; for 0 or 1 energies it raises.
C19_TransitionsFromGround ==
  IsCall("compute_transition_frequencies") =>
    LET e == call.args[1] IN
      /\ Len(e) >= 2 =>
           /\ result # <<>>
           /\ Len(result[1].transitions) = Len(e) - 1
           /\ \A j \in 1..(Len(e) - 1) : result[1].transitions[j] = e[j + 1] - e[1]
      /\ Len(e) < 2 => (result = <<>> /\ error # "none")

\* three energies with distinct steps: both transitions are measured from the ground
C19_Witness ==
  /\ IsCall("compute_transition_frequencies")
  /\ call.args[1] = <<0, 10, 19>>
  /\ result # <<>>
  /\ result[1].transitions = <<10, 19>>

\* ---------------------------------------------------------------- C20
\* C20: validate_flux returns True exactly for the values of [0, 1], both ends
\* included, and raises ValueError for every other value; nothing is clamped.
C20_FluxInUnitInterval ==
  IsCall("validate_flux") =>
    LET f == call.args[1]
        inside == 0 <= f[1] /\ f[1] <= f[2]
    IN /\ inside => (error = "none" /\ result # <<>> /\ result[1].value = TRUE)
       /\ ~inside => (result = <<>> /\ error = "ValueError: Flux must be between 0 and 1")

\* 1.5 was refused
C20_Witness ==
  /\ IsCall("validate_flux")
  /\ call.args[1] = <<3, 2>>
  /\ result = <<>>
  /\ error = "ValueError: Flux must be between 0 and 1"

\* ---------------------------------------------------------------- C21
\* C21: validate_energy returns True for every value > 0 and raises ValueError for
\* every value <= 0, zero included; a value above 1000 GHz is only warned about
\* and still accepted.
C21_EnergyPositive ==
  IsCall("validate_energy") =>
    LET e == call.args[1] IN
      /\ e[1] > 0 => (error = "none" /\ result # <<>> /\ result[1].value = TRUE)
      /\ e[1] <= 0 => (result = <<>> /\ error = "ValueError: Energy must be positive")
      /\ e[1] > 1000 * e[2] => (result # <<>> /\ result[1].warned)
      /\ (e[1] > 0 /\ e[1] <= 1000 * e[2]) => (result # <<>> /\ ~result[1].warned)

\* 1001 GHz was accepted with a warning
C21_Witness ==
  /\ IsCall("validate_energy")
  /\ call.args[1] = <<1001, 1>>
  /\ error = "none"
  /\ result # <<>>
  /\ result[1].value = TRUE
  /\ result[1].warned

\* ---------------------------------------------------------------- C27
\* C27: on three or more energies calculate_anharmonicity and calculate_gate_metrics
\* give the same anharmonicity, (e[2] - e[1]) - (e[1] - e[0]); on fewer than three
\* calculate_anharmonicity raises ValueError, also on two, where
\* calculate_gate_metrics returns metrics whose anharmonicity is None.
C27_AnharmonicityAgrees ==
  IsCall("calculate_anharmonicity+calculate_gate_metrics") =>
    LET e == call.args[1]
        a == result[1]
        m == result[2]
    IN /\ Len(e) >= 3 =>
            /\ ~a.raised /\ ~m.raised
            /\ a.anharmonicity = (e[3] - e[2]) - (e[2] - e[1])
            /\ m.anharmonicity = <<a.anharmonicity>>
       /\ Len(e) < 3 =>
            /\ a.raised
            /\ a.error = "ValueError: Need at least 3 energy levels to calculate anharmonicity"
       /\ Len(e) = 2 => (~m.raised /\ m.anharmonicity = <<>>)

\* on two energies one function raised and the other returned metrics without anharmonicity
C27_Witness ==
  /\ IsCall("calculate_anharmonicity+calculate_gate_metrics")
  /\ Len(call.args[1]) = 2
  /\ result[1].raised
  /\ ~result[2].raised
  /\ result[2].anharmonicity = <<>>

\* ---------------------------------------------------------------- C23
\* C23: in the table flux_sweep returns, the row of every failed sample equals the
\* row of the most recent earlier sample that succeeded, or is all NaN when no
\* earlier sample succeeded; when every sample failed every slot is NaN.
C23_FailedRowFromLastSuccess ==
  pc = "returned" =>
    \A j \in Processed :
      ~outcomes[j + 1].ok =>
        LET before == {s \in 0..(j - 1) : outcomes[s + 1].ok} IN
          IF before = {}
            THEN \A k \in 1..n_levels : result[2][j + 1][k] = [nan |-> TRUE, v |-> 0]
            ELSE result[2][j + 1] =
                   result[2][(CHOOSE s \in before : \A t \in before : t <= s) + 1]

\* a success followed by two failures: the second failed row still shows the
\* energies of the success two samples back, which are not all zero
C23_Witness ==
  /\ pc = "returned"
  /\ n_levels >= 1
  /\ Len(outcomes) >= 3
  /\ outcomes[1].ok
  /\ ~outcomes[2].ok
  /\ ~outcomes[3].ok
  /\ result[2][3] = result[2][1]
  /\ result[2][1][1] = [nan |-> FALSE, v |-> 1]

\* ---------------------------------------------------------------- C24
\* the loop the search of flux_sweep comes to first: the first Loop object among
\* the elements, else the first loop of the first element that carries loops
FirstMatch ==
  LET es == Flatten(circuit.elements)
      objs == {k \in 1..Len(es) : es[k].isLoop}
      carriers == {k \in 1..Len(es) : es[k].loops # <<>>}
  IN IF objs # {} THEN es[CHOOSE k \in objs : \A m \in objs : k <= m].id
     ELSE es[CHOOSE k \in carriers : \A m \in carriers : k <= m].loops[1]

\* C24: on a circuit with several flux loops flux_sweep resolves one loop, the first
\* match of its search in element iteration order, before the first sample; every
\* sample value goes to that loop and every other loop keeps its value throughout.
C24_OneLoopSwept ==
  pc \in SweepPcs =>
    /\ loop = FirstMatch
    /\ \A l \in LoopIds \ {loop} : loopValue[l] = initLoopValue[l]
    /\ \/ loopValue[loop] = initLoopValue[loop]
       \/ \E k \in 1..Len(flux_values) : loopValue[loop] = flux_values[k]
    /\ pc \in {"update", "diag"} => loopValue[loop] = flux_values[i + 1]

\* the two-loop gate after a sweep: loop 1 was moved, loop 2 was not
C24_Witness ==
  /\ pc = "returned"
  /\ circuit.modes = 2
  /\ Len(circuit.elements) = 3
  /\ loop = 1
  /\ Len(flux_values) >= 2
  /\ loopValue[1] # initLoopValue[1]
  /\ loopValue[2] = initLoopValue[2]

\* ---------------------------------------------------------------- C25
\* C25 (as stated): after a sweep of one or more samples has returned, the swept
\* loop holds the last sample of the grid and not the value it had before the call.
C25_LoopAtLastSample ==
  (pc = "returned" /\ Len(flux_values) >= 1) =>
    /\ loopValue[loop] = flux_values[Len(flux_values)]
    /\ loopValue[loop] # initLoopValue[loop]

\* C25 (amended): flux_sweep does not restore the loop; after a sweep has returned
\* the swept loop holds the grid value of the last sample whose flux assignment
\* did not raise, whatever became of that sample's update and diagonalization,
\* and the value it had before the call when every assignment raised.
C25_LoopAtLastAssigned ==
  (pc = "returned" /\ Len(flux_values) >= 1) =>
    LET assigned == {j \in Processed : outcomes[j + 1].ok \/ outcomes[j + 1].stage # "set"}
    IN IF assigned = {} THEN loopValue[loop] = initLoopValue[loop]
       ELSE loopValue[loop] = flux_values[(CHOOSE j \in assigned : \A t \in assigned : t <= j) + 1]

\* the diagonalization of the last sample failed and the loop stays at that sample
C25_Witness ==
  /\ pc = "returned"
  /\ Len(flux_values) >= 2
  /\ ~outcomes[Len(outcomes)].ok
  /\ outcomes[Len(outcomes)].stage = "diag"
  /\ loopValue[loop] = flux_values[Len(flux_values)]
  /\ loopValue[loop] # initLoopValue[loop]

\* ---------------------------------------------------------------- C26
\* C26: a flux assignment or circuit.update that fails for sample j is handled like
\* a failed diagonalization: the error does not leave the call, row j is the
\* recovery row (row j-1, or NaN for j = 0), no diagonalization is issued for
\* sample j, and the sweep goes on with sample j+1 up to the last one.
C26_EarlyFailureRecovered ==
  /\ pc \in SweepPcs =>
       \A j \in Processed :
         (~outcomes[j + 1].ok /\ outcomes[j + 1].stage \in {"set", "update"}) =>
           /\ error = "none"
           /\ \A e \in 1..Len(events) : events[e] # <<"diag", j>>
           /\ IF j = 0
                THEN \A k \in 1..n_levels : energy_levels[1][k] = [nan |-> TRUE, v |-> 0]
                ELSE energy_levels[j + 1] = energy_levels[j]
           /\ i > j
           /\ (j + 1 < Len(flux_values) /\ pc \in {"update", "diag", "exit", "returned"}) =>
                \E e \in 1..Len(events) : events[e] = <<"set", j + 1>>
  /\ pc = "returned" => Len(outcomes) = Len(flux_values)
  /\ pc = "raised" => outcomes = <<>>

\* the assignment failed for the first sample, the update for the second, and the
\* third was diagonalized
C26_Witness ==
  /\ pc = "returned"
  /\ n_levels >= 1
  /\ Len(outcomes) >= 3
  /\ ~outcomes[1].ok /\ outcomes[1].stage = "set"
  /\ ~outcomes[2].ok /\ outcomes[2].stage = "update"
  /\ outcomes[3].ok
  /\ energy_levels[2] = energy_levels[1]
  /\ \E e \in 1..Len(events) : events[e] = <<"diag", 2>>

\* ---------------------------------------------------------------- C22
\* some argument at the given positions is an energy <= 0
BadEnergyAt(positions) == \E k \in positions : call.args[k][1] <= 0

\* some argument at the given positions is a flux outside [0, 1]
BadFluxAt(positions) ==
  \E k \in positions : call.args[k][1] < 0 \/ call.args[k][1] > call.args[k][2]

\* the builder call followed got an energy <= 0 or a flux outside [0, 1]
BuilderGotInvalid ==
  \/ IsCall("build_rql_inverter") /\ (BadEnergyAt({1, 2}) \/ BadFluxAt({3}))
  \/ IsCall("build_anb_gate") /\ (BadEnergyAt({1, 2, 3, 4}) \/ BadFluxAt({5, 6}))
  \/ IsCall("build_rql_loop") /\ (BadEnergyAt({1, 2, 3}) \/ BadFluxAt({4}))

\* C22 (as stated): a builder given an energy argument <= 0 or a flux argument
\* outside [0, 1] raises ValueError before constructing anything: no loop, element
\* or circuit is created and no circuit is returned.
C22_BuildersValidateFirst ==
  BuilderGotInvalid =>
    /\ result = <<>>
    /\ call.created = 0
    /\ error \in {"ValueError: Energy must be positive",
                  "ValueError: Flux must be between 0 and 1"}

\* ---------------------------------------------------------------- C28
\* both results of the simulation block are stored in the session
BothResultsPresent(s) == s.energies # <<>> /\ s.flux_sweep_data # <<>>

C28_BlockEffects ==
  pc \in {"idle", "app_build", "app_built", "app_simulate", "app_done"} =>
    /\ session.circuit.isNone => (session.energies = <<>> /\ session.flux_sweep_data = <<>>)
    /\ (pc = "app_simulate" /\ result = <<"built">>) =>
         /\ ~session.circuit.isNone
         /\ session.energies = <<>>
         /\ session.flux_sweep_data = <<>>
    /\ (pc = "app_done" /\ result[Len(result)] = "sweep stored" /\ error # Interrupted) =>
         (session.flux_sweep_data # <<>> /\ session.energies = <<>>)
    /\ (pc = "app_done" /\ result[Len(result)] = "energies stored" /\ error # Interrupted) =>
         (session.energies # <<>> /\ session.flux_sweep_data = <<>>)

\* the only step after which both results are present when they were not before:
\* a simulation block that the script runner ended after it had stored its own
\* result and before it cleared the other one, which an earlier run had stored
C28_BothOnlyByCut ==
  (BothResultsPresent(session') /\ ~BothResultsPresent(session)) =>
    /\ pc = "app_simulate"
    /\ pc' = "app_done"
    /\ error' = Interrupted
    /\ \/ /\ result'[Len(result')] = "sweep stored"
          /\ session'.energies = session.energies
       \/ /\ result'[Len(result')] = "energies stored"
          /\ session'.flux_sweep_data = session.flux_sweep_data

====
